---- MODULE Spec2Model ----
(***************************************************************************)
(* Model of the prompt-analyzer services:                                  *)
(*   - services/monitor/detector.py : the rule-based conflict detector     *)
(*   - services/monitor/main.py     : the processing log, the claim and    *)
(*     conflict stores and the polling orchestration loop                  *)
(*   - services/ledger              : the append-only event store, its     *)
(*     reads and its live subscriptions                                    *)
(*   - services/extractor/main.py   : the validation of extracted claims   *)
(*                                                                         *)
(* Strings that the code tokenizes (claim conditions) are sequences of     *)
(* one-character strings.  Confidences are integers in hundredths          *)
(* (ConfOne = 1.0); every confidence drawn is even, so the mean of two is  *)
(* exact.                                                                  *)
(***************************************************************************)
EXTENDS Integers, Sequences, FiniteSets, TLC

VARIABLES
    \* ---- pipeline (monitor/main.py) ----
    ledger,            \* session -> sequence of event ids (the ledger's partitions)
    plog,              \* processing_log.jsonl: sequence of EventProcessingLog
    processed_events,  \* the in-memory completed set
    claimsFile,        \* session -> lines of CLAIMS_DIR/<session>.jsonl
    conflictsFile,     \* session -> lines of CONFLICTS_DIR/<session>.jsonl
    pc,                \* position of the poll_ledger task
    sessTodo,          \* sessions of this pass not yet fetched
    evTodo,            \* events of the fetched session not yet processed (head = current)
    claims,            \* process_event local: claims returned by the gateway
    conflicts,         \* process_event local: result of detect_conflicts
    gwCalls,           \* event id -> number of POST /extract calls made for it
    nextClaim,         \* claim ids generated so far by the extractor
    loaded,            \* what load_processed_events read at the last startup
    prior,             \* conflict lines of the session when the running process_event detected
    readObs,           \* what the recorded get_conflicts call observed
    \* ---- detector on a pair of claims ----
    pa, pb, pout,
    \* ---- detector on a claim list ----
    dclaims, dout,
    \* ---- ledger service (ledger/main.py, ledger/storage.py) ----
    lfile,             \* session -> text of DATA_DIR/<session>.jsonl, a sequence of tokens
    lcalls,            \* number of POST /ledger/append calls made
    appended,          \* events whose append returned 200, in the order of the calls
    lresp,             \* what the last append call returned
    lread,             \* what the last read call returned
    event_subscribers, \* the registry: list of queue ids
    queue,             \* queue id -> events put and not yet taken
    sub,               \* queue id -> the generator that owns the queue
    \* ---- extractor validation (extractor/main.py) ----
    xraw, xout

pipeVars == <<ledger, plog, processed_events, claimsFile, conflictsFile, pc,
              sessTodo, evTodo, claims, conflicts, gwCalls, nextClaim,
              loaded, prior, readObs>>
pairVars == <<pa, pb, pout>>
detVars  == <<dclaims, dout>>
ledVars  == <<lfile, lcalls, appended, lresp, lread, event_subscribers, queue, sub>>
extVars  == <<xraw, xout>>
vars     == <<pipeVars, pairVars, detVars, ledVars, extVars>>

\* "nothing yet" for the variables that hold a result
None == [done |-> FALSE]
Done(r) == [done |-> TRUE, res |-> r]

Range(s) == {s[i] : i \in 1..Len(s)}

-----------------------------------------------------------------------------
(* detector.py *)

\* Conflict.confidence: Field(..., ge=0.0, le=1.0)
ConfZero == 0
ConfOne == 100

Modalities == {"must", "must_not", "should", "prefer", "avoid", "allowed"}

ConflictSeverities == {"hard", "soft", "scope", "style"}

opposites == { <<"must", "must_not">>,
               <<"must", "avoid">>,
               <<"should", "must_not">>,
               <<"prefer", "avoid">> }

is_contradictory_onesided(mod1, mod2) == <<mod1, mod2>> \in opposites

is_contradictory(mod1, mod2) ==
    <<mod1, mod2>> \in opposites \/ <<mod2, mod1>> \in opposites

\* str.lower() on the characters the model uses
LowerChar(ch) ==
    CASE ch = "A" -> "a"
      [] ch = "B" -> "b"
      [] ch = "C" -> "c"
      [] OTHER -> ch

Lower(str) == [i \in 1..Len(str) |-> LowerChar(str[i])]

IsSpace(ch) == ch \in {" ", "\t"}

\* " ".join(strs)
RECURSIVE Join(_)
Join(strs) ==
    IF strs = <<>> THEN <<>>
    ELSE IF Len(strs) = 1 THEN strs[1]
    ELSE strs[1] \o <<" ">> \o Join(Tail(strs))

\* str.split(): the maximal runs of non-whitespace characters, in order
RECURSIVE SplitAcc(_, _)
SplitAcc(str, cur) ==
    IF str = <<>>
    THEN (IF cur = <<>> THEN <<>> ELSE <<cur>>)
    ELSE IF IsSpace(Head(str))
         THEN (IF cur = <<>> THEN <<>> ELSE <<cur>>) \o SplitAcc(Tail(str), <<>>)
         ELSE SplitAcc(Tail(str), Append(cur, Head(str)))

Split(str) == SplitAcc(str, <<>>)

\* set(" ".join(conditions).lower().split())
words(conditions) == Range(Split(Lower(Join(conditions))))

assess_conflict_severity_anyempty(claim1, claim2) ==
    IF claim1.conditions = <<>> \/ claim2.conditions = <<>> THEN "hard"
    ELSE IF words(claim1.conditions) \cap words(claim2.conditions) # {} THEN "soft"
    ELSE "none"

assess_conflict_severity_nooverlap(claim1, claim2) ==
    IF claim1.conditions = <<>> /\ claim2.conditions = <<>> THEN "hard"
    ELSE "soft"

assess_conflict_severity(claim1, claim2) ==
    IF claim1.conditions = <<>> /\ claim2.conditions = <<>> THEN "hard"
    ELSE IF (claim1.conditions # <<>>) # (claim2.conditions # <<>>) THEN "soft"
    ELSE IF words(claim1.conditions) \cap words(claim2.conditions) # {} THEN "soft"
    ELSE "none"

create_conflict_first(claim1, claim2, severity) ==
    [ session_id |-> claim1.session_id,
      claims     |-> <<claim1.claim_id, claim2.claim_id>>,
      severity   |-> severity,
      confidence |-> claim1.confidence ]

\* the conflict names its first claim twice
create_conflict_self(claim1, claim2, severity) ==
    [ session_id |-> claim1.session_id,
      claims     |-> <<claim1.claim_id, claim1.claim_id>>,
      severity   |-> severity,
      confidence |-> (claim1.confidence + claim2.confidence) \div 2 ]

\* conflict_id (a fresh uuid) and the explanation string are left out
create_conflict(claim1, claim2, severity) ==
    [ session_id |-> claim1.session_id,
      claims     |-> <<claim1.claim_id, claim2.claim_id>>,
      severity   |-> severity,
      confidence |-> (claim1.confidence + claim2.confidence) \div 2 ]

\* pydantic validation of Conflict(...)
ConflictValid(cf) ==
    /\ cf.severity \in ConflictSeverities
    /\ cf.confidence >= ConfZero
    /\ cf.confidence <= ConfOne

key(claim) == <<claim.action, claim.target>>

\* the keys of `groups`, in insertion order
RECURSIVE GroupKeys(_, _)
GroupKeys(cs, seen) ==
    IF cs = <<>> THEN seen
    ELSE GroupKeys(Tail(cs),
                   IF key(Head(cs)) \in Range(seen) THEN seen
                   ELSE Append(seen, key(Head(cs))))

group_claims(cs, k) == SelectSeq(cs, LAMBDA c : key(c) = k)

\* compares each claim with its successor only
RECURSIVE PairLoop_adjacent(_, _, _)
PairLoop_adjacent(g, i, j) ==
    IF i >= Len(g) THEN <<>>
    ELSE (IF /\ is_contradictory(g[i].modality, g[i + 1].modality)
             /\ assess_conflict_severity(g[i], g[i + 1]) # "none"
          THEN <<create_conflict(g[i], g[i + 1],
                                 assess_conflict_severity(g[i], g[i + 1]))>>
          ELSE <<>>)
         \o PairLoop_adjacent(g, i + 1, i + 2)

\* compares each claim with every other claim of the group, in both orders
RECURSIVE PairLoop_ordered(_, _, _)
PairLoop_ordered(g, i, j) ==
    IF i > Len(g) THEN <<>>
    ELSE IF j > Len(g) THEN PairLoop_ordered(g, i + 1, 1)
    ELSE (IF /\ i # j
             /\ is_contradictory(g[i].modality, g[j].modality)
             /\ assess_conflict_severity(g[i], g[j]) # "none"
          THEN <<create_conflict(g[i], g[j],
                                 assess_conflict_severity(g[i], g[j]))>>
          ELSE <<>>)
         \o PairLoop_ordered(g, i, j + 1)

\* for i, claim1 in enumerate(group): for claim2 in group[i+1:]
RECURSIVE PairLoop(_, _, _)
PairLoop(g, i, j) ==
    IF i >= Len(g) THEN <<>>
    ELSE IF j > Len(g) THEN PairLoop(g, i + 1, i + 2)
    ELSE LET severity == assess_conflict_severity(g[i], g[j])
         IN  (IF is_contradictory(g[i].modality, g[j].modality) /\ severity # "none"
              THEN <<create_conflict(g[i], g[j], severity)>>
              ELSE <<>>)
             \o PairLoop(g, i, j + 1)

\* for (action, target), group_claims in groups.items()
RECURSIVE GroupLoop(_, _)
GroupLoop(cs, ks) ==
    IF ks = <<>> THEN <<>>
    ELSE LET g == group_claims(cs, Head(ks))
         IN  (IF Len(g) < 2 THEN <<>> ELSE PairLoop(g, 1, 2))
             \o GroupLoop(cs, Tail(ks))

\* the conflicts created, in creation order
detect_list(cs) == GroupLoop(cs, GroupKeys(cs, <<>>))

\* detect_conflicts: raises when a Conflict fails validation, else returns the list
detect_conflicts(cs) ==
    LET created == detect_list(cs)
    IN  IF \E i \in 1..Len(created) : ~ConflictValid(created[i])
        THEN [raised |-> TRUE, conflicts |-> <<>>]
        ELSE [raised |-> FALSE, conflicts |-> created]

-----------------------------------------------------------------------------
(* The detector applied to two claims of one session *)

Actions == {"file_write", "file_read"}
Targets == {"prod files", "test files"}

\* condition lists: [], ["a"], ["A b"], ["b", "c"], [" "]
CondLists == { <<>>,
               << <<"a">> >>,
               << <<"A", " ", "b">> >>,
               << <<"b">>, <<"c">> >>,
               << <<" ">> >> }

\* -0.4, 0.2, 1.0, 1.4: monitor's Claim.confidence is an unconstrained float
Confidences == {0 - 40, 20, 100, 140}

ClaimsWithId(id) ==
    [ claim_id : {id}, session_id : {"s1"}, event_id : {1},
      modality : Modalities, action : Actions, target : Targets,
      conditions : CondLists, confidence : Confidences ]

PipeIdle ==
    /\ ledger = <<>> /\ plog = <<>> /\ processed_events = {}
    /\ claimsFile = <<>> /\ conflictsFile = <<>> /\ pc = "off"
    /\ sessTodo = {} /\ evTodo = <<>> /\ claims = <<>> /\ conflicts = <<>>
    /\ gwCalls = <<>> /\ nextClaim = 0
    /\ loaded = {} /\ prior = <<>> /\ readObs = None

PairIdle == pa = None /\ pb = None /\ pout = None

DetIdle == dclaims = <<>> /\ dout = None

LedIdle ==
    /\ lfile = <<>> /\ lcalls = 0 /\ appended = <<>> /\ lresp = None /\ lread = None
    /\ event_subscribers = <<>> /\ queue = <<>> /\ sub = <<>>

ExtIdle == xraw = <<>> /\ xout = None

PairInit ==
    /\ pa \in ClaimsWithId(1)
    /\ pb \in ClaimsWithId(2)
    /\ pa.action = "file_write"      \* the two action names are interchangeable
    /\ pout = None
    /\ PipeIdle /\ DetIdle /\ LedIdle /\ ExtIdle

\* conflicts = detect_conflicts([pa, pb])
PairDetect ==
    /\ ~pout.done
    /\ pout' = Done(detect_conflicts(<<pa, pb>>))
    /\ UNCHANGED <<pa, pb, pipeVars, detVars, ledVars, extVars>>

PairNext == PairDetect

SpecPair == PairInit /\ [][PairNext]_vars

-----------------------------------------------------------------------------
(* Properties of the detector on a pair (checked under SpecPair) *)

\* the spec's table of opposite modality pairs, as unordered pairs
ListedPairs == { {"must", "must_not"}, {"must", "avoid"},
                 {"should", "must_not"}, {"prefer", "avoid"} }

PairMods == {pa.modality, pb.modality}

\* a claim as the data model states it: confidence in [0,1]
InUnit(c) == c.confidence >= ConfZero /\ c.confidence <= ConfOne

\* the lower-cased whitespace tokens of each condition list of CondLists,
\* written out by hand
Tokens(conds) ==
    CASE conds = <<>>                      -> {}
      [] conds = << <<"a">> >>             -> { <<"a">> }
      [] conds = << <<"A", " ", "b">> >>   -> { <<"a">>, <<"b">> }
      [] conds = << <<"b">>, <<"c">> >>    -> { <<"b">>, <<"c">> }
      [] conds = << <<" ">> >>             -> {}

NoConflict == [raised |-> FALSE, conflicts |-> <<>>]

OneConflict(sev) ==
    /\ ~pout.res.raised
    /\ Len(pout.res.conflicts) = 1
    /\ pout.res.conflicts[1].severity = sev

\* C7: is_contradictory(m1, m2) is true iff {m1, m2} is one of the four listed
\* pairs; it is symmetric, false for identical modalities, false for every pair
\* involving `allowed`, false for {should, prefer}; detect_conflicts emits no
\* conflict for a non-listed modality pair, whatever the conditions are.
C7_ContradictionTable ==
    /\ is_contradictory(pa.modality, pb.modality) <=> (PairMods \in ListedPairs)
    /\ is_contradictory(pa.modality, pb.modality)
         = is_contradictory(pb.modality, pa.modality)
    /\ pa.modality = pb.modality => ~is_contradictory(pa.modality, pb.modality)
    /\ "allowed" \in PairMods => ~is_contradictory(pa.modality, pb.modality)
    /\ PairMods = {"should", "prefer"} => ~is_contradictory(pa.modality, pb.modality)
    /\ (pout.done /\ PairMods \notin ListedPairs) => pout.res = NoConflict

C7_Witness ==
    /\ pout.done
    /\ pa.modality = "prefer" /\ pb.modality = "should"
    /\ key(pa) = key(pb)
    /\ pa.conditions = <<>> /\ pb.conditions = <<>>
    /\ pout.res = NoConflict

\* C8: two claims with identical (action, target), contradictory modalities and
\* both conditions lists empty give exactly one conflict, of severity hard; a
\* hard conflict is emitted only when both conditions lists are empty.
C8_HardWhenUnconditional ==
    pout.done =>
      /\ ( /\ key(pa) = key(pb) /\ PairMods \in ListedPairs
           /\ pa.conditions = <<>> /\ pb.conditions = <<>>
           /\ InUnit(pa) /\ InUnit(pb) )
         => OneConflict("hard")
      /\ \A i \in 1..Len(pout.res.conflicts) :
           pout.res.conflicts[i].severity = "hard"
             => pa.conditions = <<>> /\ pb.conditions = <<>>

C8_Witness ==
    /\ pout.done
    /\ pa.modality = "must_not" /\ pb.modality = "must"
    /\ key(pa) = key(pb)
    /\ pa.conditions = <<>> /\ pb.conditions = <<>>
    /\ OneConflict("hard")

\* C9: for a contradictory pair with identical (action, target): exactly one
\* non-empty conditions list gives exactly one soft conflict; two non-empty
\* lists give exactly one soft conflict when their lower-cased token sets
\* intersect and no conflict when they are disjoint.
C9_SoftOrNone ==
    ( /\ pout.done /\ key(pa) = key(pb) /\ PairMods \in ListedPairs
      /\ InUnit(pa) /\ InUnit(pb) )
    =>
      /\ ((pa.conditions = <<>>) # (pb.conditions = <<>>)) => OneConflict("soft")
      /\ (pa.conditions # <<>> /\ pb.conditions # <<>>) =>
           IF Tokens(pa.conditions) \cap Tokens(pb.conditions) # {}
           THEN OneConflict("soft")
           ELSE pout.res = NoConflict

C9_Witness ==
    /\ pout.done
    /\ key(pa) = key(pb) /\ PairMods = {"prefer", "avoid"}
    /\ pa.conditions = << <<"a">> >>
    /\ pb.conditions = << <<"A", " ", "b">> >>
    /\ OneConflict("soft")

\* C10: every conflict emitted references exactly the two claim ids of the pair
\* and carries the arithmetic mean of the two confidences; when both claim
\* confidences lie in [0,1] the conflict's confidence lies in [0,1] and the
\* creation does not fail.
C10_MeanConfidence ==
    pout.done =>
      /\ \A i \in 1..Len(pout.res.conflicts) :
           /\ Len(pout.res.conflicts[i].claims) = 2
           /\ Range(pout.res.conflicts[i].claims) = {pa.claim_id, pb.claim_id}
           /\ 2 * pout.res.conflicts[i].confidence = pa.confidence + pb.confidence
      /\ (InUnit(pa) /\ InUnit(pb)) =>
           /\ ~pout.res.raised
           /\ \A i \in 1..Len(pout.res.conflicts) :
                /\ pout.res.conflicts[i].confidence >= ConfZero
                /\ pout.res.conflicts[i].confidence <= ConfOne

C10_Witness ==
    /\ pout.done
    /\ pa.confidence = 20 /\ pb.confidence = 100
    /\ Len(pout.res.conflicts) = 1
    /\ pout.res.conflicts[1].confidence = 60
    /\ pout.res.conflicts[1].claims = <<1, 2>>

-----------------------------------------------------------------------------
(* The detector applied to a claim list *)

\* longest claim list handed to the detector
MaxClaims == 3

DetModalities == {"must", "must_not"}
DetKeys == { <<"file_write", "prod files">>,
             <<"file_write", "test files">>,
             <<"file_read", "prod files">> }
DetCondLists == { <<>>, << <<"a">> >>, << <<"b">>, <<"c">> >> }

\* a claim of session s1 with the given (unique) id
DetClaim(id, m, k, cond) ==
    [ claim_id |-> id, session_id |-> "s1", event_id |-> 1,
      modality |-> m, action |-> k[1], target |-> k[2],
      conditions |-> cond, confidence |-> 80 ]

DetInit ==
    /\ dclaims = <<>>
    /\ dout = None
    /\ PipeIdle /\ PairIdle /\ LedIdle /\ ExtIdle

\* one more claim in the list; claim ids are unique
DetAdd ==
    /\ ~dout.done
    /\ Len(dclaims) < MaxClaims
    /\ \E m \in DetModalities, k \in DetKeys, cond \in DetCondLists :
         dclaims' = Append(dclaims, DetClaim(Len(dclaims) + 1, m, k, cond))
    /\ UNCHANGED <<dout, pipeVars, pairVars, ledVars, extVars>>

\* conflicts = detect_conflicts(dclaims)
DetRun ==
    /\ ~dout.done
    /\ dout' = Done(detect_conflicts(dclaims))
    /\ UNCHANGED <<dclaims, pipeVars, pairVars, ledVars, extVars>>

DetNext == DetAdd \/ DetRun

SpecDet == DetInit /\ [][DetNext]_vars

\* a detection result as a set of {unordered claim-id pair, severity}
PairSet(cfs) ==
    { [pair |-> Range(cfs[i].claims), severity |-> cfs[i].severity] :
        i \in 1..Len(cfs) }

Permuted(cs, p) == [i \in 1..Len(cs) |-> cs[p[i]]]

\* C6: detect_conflicts is invariant under permutation of its input: every
\* reordering of the claim list gives the same set of {claim-id pair, severity}.
C6_PermutationInvariant ==
    dout.done =>
      \A p \in Permutations(1..Len(dclaims)) :
        LET reordered == detect_conflicts(Permuted(dclaims, p))
        IN  /\ reordered.raised = dout.res.raised
            /\ PairSet(reordered.conflicts) = PairSet(dout.res.conflicts)

\* three claims in two groups, two conflicts, and a reordering that changes the
\* returned list (its order, and the order of the ids inside a conflict)
C6_Witness ==
    /\ dout.done
    /\ Len(dclaims) = 3
    /\ Len(dout.res.conflicts) = 2
    /\ \E p \in Permutations(1..3) :
         /\ detect_conflicts(Permuted(dclaims, p)).conflicts # dout.res.conflicts
         /\ \A i \in 1..2 : \A j \in 1..2 :
              detect_conflicts(Permuted(dclaims, p)).conflicts[i].claims
                # dout.res.conflicts[j].claims

-----------------------------------------------------------------------------
(* monitor/main.py: the stores, process_event and poll_ledger *)

\* events appended to the ledger, processing attempts started
MaxEvents == 2
MaxAttempts == 2

Sessions == {"s1", "s2"}
EventIds == 1..MaxEvents

\* what the extraction gateway may answer: a batch of claims (ids are added)
T_must   == [modality |-> "must", action |-> "file_write", target |-> "prod files",
             conditions |-> <<>>, confidence |-> 80]
T_mustnot == [modality |-> "must_not", action |-> "file_write", target |-> "prod files",
             conditions |-> <<>>, confidence |-> 100]
T_avoid  == [modality |-> "avoid", action |-> "file_write", target |-> "prod files",
             conditions |-> << <<"a">> >>, confidence |-> 60]
Batches == { <<>>, <<T_mustnot>>, <<T_must, T_avoid>> }

\* Claim(claim_id=generate_claim_id(), session_id=..., event_id=..., **raw)
MakeClaim(id, ev, raw) ==
    [ claim_id |-> id, session_id |-> ev.session_id, event_id |-> ev.event_id,
      modality |-> raw.modality, action |-> raw.action, target |-> raw.target,
      conditions |-> raw.conditions, confidence |-> raw.confidence ]

\* EventProcessingLog(...); last_error and timestamp are left out
LogEntry(ev, state, n) ==
    [ event_id |-> ev.event_id, session_id |-> ev.session_id, state |-> state,
      attempts |-> 1, claims_extracted |-> n ]

load_processed_events_none(log) == {}

load_processed_events_all(log) == {log[i].event_id : i \in 1..Len(log)}

\* the event ids of the log's `completed` lines
load_processed_events(log) ==
    {log[i].event_id : i \in {j \in 1..Len(log) : log[j].state = "completed"}}

load_claims_last(lines) ==
    IF lines = <<>> THEN <<>> ELSE <<lines[Len(lines)]>>

\* every stored line parses back to the claim written
load_claims(lines) == lines

load_conflicts(lines) == lines

\* GET /ledger/session/{s}: the events of the partition, in append order
SessionEvents(s) ==
    [i \in 1..Len(ledger[s]) |-> [event_id |-> ledger[s][i], session_id |-> s]]

TotalEvents == Len(ledger["s1"]) + Len(ledger["s2"])
\* the attempts started so far: the `processing` lines of the log
TotalAttempts == Cardinality({i \in 1..Len(plog) : plog[i].state = "processing"})

PipeInit ==
    /\ ledger = [s \in Sessions |-> <<>>]
    /\ plog = <<>>
    /\ processed_events = {}
    /\ claimsFile = [s \in Sessions |-> <<>>]
    /\ conflictsFile = [s \in Sessions |-> <<>>]
    /\ pc = "sleep"
    /\ sessTodo = {}
    /\ evTodo = <<>>
    /\ claims = <<>>
    /\ conflicts = <<>>
    /\ gwCalls = [e \in EventIds |-> 0]
    /\ nextClaim = 0
   
    /\ loaded = {}
    /\ prior = <<>>
    /\ readObs = None

Init == PipeInit /\ PairIdle /\ DetIdle /\ LedIdle /\ ExtIdle

Cur == Head(evTodo)

\* ledger POST /ledger/append, seen from the monitor: one more event in a
\* partition.  An append commutes with every monitor step but the two ledger
\* reads, so it is taken only right before one (pc is sleep or sessions).
\* The two session names are interchangeable: the first event goes to s1.
AppendEvent ==
    /\ TotalEvents < MaxEvents
    /\ pc \in {"sleep", "sessions"}
    /\ \E s \in (IF TotalEvents = 0 THEN {"s1"} ELSE Sessions) :
         ledger' = [ledger EXCEPT ![s] = Append(@, TotalEvents + 1)]
    /\ UNCHANGED <<plog, processed_events, claimsFile, conflictsFile, pc, sessTodo,
                   evTodo, claims, conflicts, gwCalls, nextClaim, loaded,
                   prior, pairVars, detVars, ledVars, extVars>>
    /\ readObs' = None

\* poll_ledger: the sleep ends, GET /ledger/sessions answers (list_sessions:
\* the partitions that exist, in no particular order)
PollListSessions ==
    /\ pc = "sleep"
    /\ sessTodo' = {s \in Sessions : ledger[s] # <<>>}
    /\ pc' = "sessions"
    /\ UNCHANGED <<ledger, plog, processed_events, claimsFile, conflictsFile,
                   evTodo, claims, conflicts, gwCalls, nextClaim, loaded,
                   prior, pairVars, detVars, ledVars, extVars>>
    /\ readObs' = None

\* for session_id in sessions: GET /ledger/session/{session_id} answers
PollFetchEvents ==
    /\ pc = "sessions"
    /\ \E s \in sessTodo :
         /\ evTodo' = SessionEvents(s)
         /\ sessTodo' = sessTodo \ {s}
    /\ pc' = "events"
    /\ UNCHANGED <<ledger, plog, processed_events, claimsFile, conflictsFile,
                   claims, conflicts, gwCalls, nextClaim, loaded,
                   prior, pairVars, detVars, ledVars, extVars>>
    /\ readObs' = None

\* the GET of a session raises inside `for session_id in sessions`: control
\* goes to `except Exception` of the pass (sessTodo keeps the sessions that
\* were still to come)
PollFetchFails ==
    /\ pc = "sessions"
    /\ \E s \in sessTodo : sessTodo' = sessTodo \ {s}
    /\ pc' = "poll_failed"
    /\ UNCHANGED <<ledger, plog, processed_events, claimsFile, conflictsFile,
                   evTodo, claims, conflicts, gwCalls, nextClaim, loaded,
                   prior, pairVars, detVars, ledVars, extVars>>
    /\ readObs' = None

\* logger.error("poll_failed"): the pass is over, asyncio.sleep(POLL_INTERVAL)
PollFailed ==
    /\ pc = "poll_failed"
    /\ sessTodo' = {}
    /\ pc' = "sleep"
    /\ UNCHANGED <<ledger, plog, processed_events, claimsFile, conflictsFile,
                   evTodo, claims, conflicts, gwCalls, nextClaim, loaded,
                   prior, pairVars, detVars, ledVars, extVars>>
    /\ readObs' = None

\* every session of the pass was handled: asyncio.sleep(POLL_INTERVAL)
PollPassDone ==
    /\ pc = "sessions"
    /\ sessTodo = {}
    /\ pc' = "sleep"
    /\ UNCHANGED <<ledger, plog, processed_events, claimsFile, conflictsFile, sessTodo,
                   evTodo, claims, conflicts, gwCalls, nextClaim, loaded,
                   prior, pairVars, detVars, ledVars, extVars>>
    /\ readObs' = None

\* `for event in events` is exhausted
PollSessionDone ==
    /\ pc = "events"
    /\ evTodo = <<>>
    /\ pc' = "sessions"
    /\ UNCHANGED <<ledger, plog, processed_events, claimsFile, conflictsFile, sessTodo,
                   evTodo, claims, conflicts, gwCalls, nextClaim, loaded,
                   prior, pairVars, detVars, ledVars, extVars>>
    /\ readObs' = None

already_processed_never(event_id) == FALSE

\* every event that has a log entry counts as processed
already_processed_logged(event_id) ==
    \/ event_id \in processed_events
    \/ \E i \in 1..Len(plog) : plog[i].event_id = event_id

\* if event_id in processed_events
already_processed(event_id) == event_id \in processed_events

\* process_event: "Skip if already processed"
ProcessSkip ==
    /\ pc = "events"
    /\ evTodo # <<>>
    /\ already_processed(Cur.event_id)
    /\ evTodo' = Tail(evTodo)
    /\ UNCHANGED <<ledger, plog, processed_events, claimsFile, conflictsFile, pc,
                   sessTodo, claims, conflicts, gwCalls, nextClaim, loaded,
                   prior, pairVars, detVars, ledVars, extVars>>
    /\ readObs' = None

\* the next attempt is started without waiting for the one in progress
ProcessStart_overlapping ==
    /\ pc \in {"events", "save"}
    /\ evTodo # <<>>
    /\ ~already_processed(Cur.event_id)
    /\ TotalAttempts < MaxAttempts
    /\ plog' = Append(plog, LogEntry(Cur, "processing", 0))
    /\ pc' = "extract"
    /\ UNCHANGED <<ledger, processed_events, claimsFile, conflictsFile, sessTodo,
                   evTodo, claims, conflicts, gwCalls, nextClaim, loaded,
                   prior, pairVars, detVars, ledVars, extVars>>
    /\ readObs' = None

\* process_event: log_processing_state(PROCESSING), then the POST is sent
StartAttempt ==
    /\ pc = "events"
    /\ evTodo # <<>>
    /\ ~already_processed(Cur.event_id)
    /\ plog' = Append(plog, LogEntry(Cur, "processing", 0))
    /\ pc' = "extract"
    /\ UNCHANGED <<ledger, processed_events, claimsFile, conflictsFile, sessTodo,
                   evTodo, claims, conflicts, gwCalls, nextClaim, loaded,
                   prior, pairVars, detVars, ledVars, extVars>>
    /\ readObs' = None

\* an attempt, as long as fewer than MaxAttempts were started
ProcessStart == TotalAttempts < MaxAttempts /\ StartAttempt

\* the except branch of process_event: log_processing_state(FAILED), return
RecordFailed ==
    /\ plog' = Append(plog, LogEntry(Cur, "failed", 0))
    /\ evTodo' = Tail(evTodo)
    /\ claims' = <<>>
    /\ conflicts' = <<>>
    /\ prior' = <<>>
    /\ pc' = "events"

\* the event is marked as done as soon as the gateway has answered
ExtractOk_marked ==
    /\ pc = "extract"
    /\ \E b \in Batches :
         /\ claims' = [i \in 1..Len(b) |-> MakeClaim(nextClaim + i, Cur, b[i])]
         /\ nextClaim' = nextClaim + Len(b)
    /\ gwCalls' = [gwCalls EXCEPT ![Cur.event_id] = @ + 1]
    /\ processed_events' = processed_events \cup {Cur.event_id}
    /\ pc' = "save"
    /\ UNCHANGED <<ledger, plog, claimsFile, conflictsFile,
                   sessTodo, evTodo, conflicts, loaded, prior, pairVars, detVars, ledVars, extVars>>
    /\ readObs' = None

\* POST /extract answers 200 with a batch of claims, each with a fresh claim id
ExtractOk ==
    /\ pc = "extract"
    /\ \E b \in Batches :
         /\ claims' = [i \in 1..Len(b) |-> MakeClaim(nextClaim + i, Cur, b[i])]
         /\ nextClaim' = nextClaim + Len(b)
    /\ gwCalls' = [gwCalls EXCEPT ![Cur.event_id] = @ + 1]
    /\ pc' = "save"
    /\ UNCHANGED <<ledger, plog, processed_events, claimsFile, conflictsFile,
                   sessTodo, evTodo, conflicts, loaded, prior, pairVars, detVars, ledVars, extVars>>
    /\ readObs' = None

\* the batch is stored before the answer is found invalid
ExtractFails_stored ==
    /\ pc = "extract"
    /\ gwCalls' = [gwCalls EXCEPT ![Cur.event_id] = @ + 1]
    /\ claimsFile' = [claimsFile EXCEPT ![Cur.session_id] =
                         Append(@, MakeClaim(nextClaim + 1, Cur, T_mustnot))]
    /\ nextClaim' = nextClaim + 1
    /\ RecordFailed
    /\ UNCHANGED <<ledger, processed_events, conflictsFile, sessTodo,
                   loaded, pairVars, detVars, ledVars, extVars>>
    /\ readObs' = None

\* the POST raises (unreachable, timeout, raise_for_status, invalid claim)
ExtractFails ==
    /\ pc = "extract"
    /\ gwCalls' = [gwCalls EXCEPT ![Cur.event_id] = @ + 1]
    /\ RecordFailed
    /\ UNCHANGED <<ledger, processed_events, claimsFile, conflictsFile, sessTodo,
                   nextClaim, loaded, pairVars, detVars, ledVars, extVars>>
    /\ readObs' = None

\* the claim lines of the session after save_claims (skipped for an empty batch)
save_claims(lines, new) == lines \o new

\* save_claims, load_claims, detect_conflicts
SaveAndDetect ==
    /\ pc = "save"
    /\ LET s      == Cur.session_id
           stored == save_claims(claimsFile[s], claims)
           found  == detect_conflicts(load_claims(stored))
       IN  /\ claimsFile' = [claimsFile EXCEPT ![s] = stored]
           /\ IF found.raised
              THEN /\ RecordFailed
                   /\ UNCHANGED conflictsFile
              ELSE /\ conflicts' = found.conflicts
                   /\ prior' = conflictsFile[s]
                   /\ pc' = IF found.conflicts = <<>> THEN "log_completed"
                            ELSE IF conflictsFile[s] # <<>> THEN "unlink"
                            ELSE "write"
                   /\ UNCHANGED <<plog, evTodo, claims, conflictsFile>>
    /\ UNCHANGED <<ledger, processed_events, sessTodo, gwCalls, nextClaim,
                   loaded, pairVars, detVars, ledVars, extVars>>
    /\ readObs' = None

\* the claims are written and load_claims raises
LoadClaimsFails ==
    /\ pc = "save"
    /\ claimsFile' = [claimsFile EXCEPT
                        ![Cur.session_id] = save_claims(@, claims)]
    /\ RecordFailed
    /\ UNCHANGED <<ledger, processed_events, conflictsFile, sessTodo,
                   gwCalls, nextClaim, loaded, pairVars, detVars, ledVars, extVars>>
    /\ readObs' = None

\* conflict_file.unlink()
UnlinkConflicts ==
    /\ pc = "unlink"
    /\ conflictsFile' = [conflictsFile EXCEPT ![Cur.session_id] = <<>>]
    /\ pc' = "write"
    /\ UNCHANGED <<ledger, plog, processed_events, claimsFile, sessTodo, evTodo,
                   claims, conflicts, gwCalls, nextClaim, loaded, prior,
                   pairVars, detVars, ledVars, extVars>>
    /\ readObs' = None

\* the conflict lines of the session after save_conflicts
save_conflicts(lines, new) == lines \o new

\* save_conflicts: open(file_path, "a"), the writes, f.flush().  The lines of
\* the small sets of this model fit the file buffer: they reach the file
\* together at the flush, and until then a reader finds the file empty.
WriteConflicts ==
    /\ pc = "write"
    /\ conflictsFile' = [conflictsFile EXCEPT
                           ![Cur.session_id] = save_conflicts(@, conflicts)]
    /\ pc' = "log_completed"
    /\ UNCHANGED <<ledger, plog, processed_events, claimsFile, sessTodo, evTodo,
                   claims, conflicts, gwCalls, nextClaim, loaded, prior,
                   pairVars, detVars, ledVars, extVars>>
    /\ readObs' = None

\* unlink or save_conflicts raises (OSError)
ReplaceFails ==
    /\ pc \in {"unlink", "write"}
    /\ RecordFailed
    /\ UNCHANGED <<ledger, processed_events, claimsFile, conflictsFile, sessTodo,
                   gwCalls, nextClaim, loaded, pairVars, detVars, ledVars, extVars>>
    /\ readObs' = None

\* log_processing_state(COMPLETED)
LogCompleted ==
    /\ pc = "log_completed"
    /\ plog' = Append(plog, LogEntry(Cur, "completed", Len(claims)))
    /\ pc' = "add"
    /\ UNCHANGED <<ledger, processed_events, claimsFile, conflictsFile, sessTodo,
                   evTodo, claims, conflicts, gwCalls, nextClaim, loaded,
                   prior, pairVars, detVars, ledVars, extVars>>
    /\ readObs' = None

\* processed_events.add(event_id); process_event returns
AddProcessed ==
    /\ pc = "add"
    /\ processed_events' = processed_events \cup {Cur.event_id}
    /\ evTodo' = Tail(evTodo)
    /\ claims' = <<>>
    /\ conflicts' = <<>>
    /\ prior' = <<>>
    /\ pc' = "events"
    /\ UNCHANGED <<ledger, plog, claimsFile, conflictsFile, sessTodo, gwCalls,
                   nextClaim, loaded, pairVars, detVars, ledVars, extVars>>
    /\ readObs' = None

\* the process dies at any point and is started again: startup_event runs
\* load_processed_events and a new poll_ledger task; the files stay
Restart ==
    /\ processed_events' = load_processed_events(plog)
    /\ loaded' = load_processed_events(plog)
    /\ pc' = "sleep"
    /\ sessTodo' = {}
    /\ evTodo' = <<>>
    /\ claims' = <<>>
    /\ conflicts' = <<>>
    /\ prior' = <<>>
    /\ UNCHANGED <<ledger, plog, claimsFile, conflictsFile, gwCalls, nextClaim,
                   pairVars, detVars, ledVars, extVars>>
    /\ readObs' = None

\* the positions inside process_event
InProcessEvent == {"extract", "save", "unlink", "write", "log_completed", "add"}

\* the session whose conflict file process_event is replacing right now
Replacing(s) == pc \in {"unlink", "write"} /\ Cur.session_id = s

\* GET /monitor/conflicts/{s}, served by a worker thread while process_event
\* runs for an event of session s;
\* readObs is what the call that just returned observed, with the stored set
\* before and the fresh set of the replacement it overlaps (if any)
GetConflicts ==
    /\ pc \in InProcessEvent
    /\ \E s \in {Cur.session_id} :
         readObs' = Done([ session |-> s,
                           got     |-> load_conflicts(conflictsFile[s]),
                           before  |-> IF Replacing(s) THEN prior ELSE conflictsFile[s],
                           fresh   |-> IF Replacing(s) THEN conflicts ELSE conflictsFile[s] ])
    /\ UNCHANGED <<ledger, plog, processed_events, claimsFile, conflictsFile, pc,
                   sessTodo, evTodo, claims, conflicts, gwCalls, nextClaim,
                   loaded, prior, pairVars, detVars, ledVars, extVars>>

Next ==
    \/ AppendEvent
    \/ PollListSessions \/ PollFetchEvents \/ PollFetchFails \/ PollFailed
    \/ PollPassDone \/ PollSessionDone
    \/ ProcessSkip \/ ProcessStart
    \/ ExtractOk \/ ExtractFails
    \/ SaveAndDetect \/ LoadClaimsFails
    \/ UnlinkConflicts \/ WriteConflicts \/ ReplaceFails
    \/ LogCompleted \/ AddProcessed
    \/ Restart
    \/ GetConflicts

Spec == Init /\ [][Next]_vars

-----------------------------------------------------------------------------
(* Properties of the pipeline (checked under Spec) *)

EntriesOf(log, e) == SelectSeq(log, LAMBDA r : r.event_id = e)

HasCompleted(log, e) ==
    \E i \in 1..Len(log) : log[i].event_id = e /\ log[i].state = "completed"

\* the state of the last log line of event e ("unseen" when it has none)
LastState(log, e) ==
    LET es == EntriesOf(log, e)
    IN  IF es = <<>> THEN "unseen" ELSE es[Len(es)].state

ProcessingCount(log, e) ==
    Cardinality({i \in 1..Len(log) :
                   log[i].event_id = e /\ log[i].state = "processing"})

\* the number of stored claim lines that come from event e
ClaimLines(files, e) ==
    Cardinality(UNION { { <<s, i>> : i \in {j \in 1..Len(files[s]) :
                                              files[s][j].event_id = e} } :
                        s \in Sessions })

\* C1: once a `completed` entry for event e is recorded, no later step (poll
\* pass, failure, restart with the completed set rebuilt from the log) records
\* `processing` for e, calls the extraction gateway for e or appends claims
\* for e.
C1_CompletedNeverReprocessed ==
    [][ \A e \in EventIds :
          HasCompleted(plog, e) =>
            /\ ProcessingCount(plog', e) = ProcessingCount(plog, e)
            /\ gwCalls'[e] = gwCalls[e]
            /\ ClaimLines(claimsFile', e) = ClaimLines(claimsFile, e) ]_vars

\* after a restart that loaded event 1 as completed, a pass over its session
\* has gone past event 1 and is about to handle event 2
C1_Witness ==
    \E s \in Sessions :
      /\ ledger[s] = <<1, 2>>
      /\ 1 \in loaded
      /\ pc = "events"
      /\ evTodo = <<[event_id |-> 2, session_id |-> s]>>

\* an event whose last log line is `failed`, or `processing` left by a crash
Eligible(e) == LastState(plog, e) \in {"failed", "processing"}

\* C2: when a pass reaches a listed event whose last log state is `failed` (or
\* `processing` with no terminal record), it starts a new attempt: it records
\* `processing` and then invokes the gateway; no listed event is dropped from
\* the pass, and the number of earlier attempts does not matter.
C2_EligibleIsRetried ==
    [][ /\ ( /\ pc = "events" /\ evTodo # <<>> /\ Eligible(Cur.event_id)
             /\ pc' # "sleep" /\ <<pc, evTodo>>' # <<pc, evTodo>> )
           => /\ plog' = Append(plog, LogEntry(Cur, "processing", 0))
              /\ pc' = "extract"
              /\ evTodo' = evTodo
        /\ (pc = "extract" /\ pc' \notin {"extract", "sleep"})
           => gwCalls'[Cur.event_id] = gwCalls[Cur.event_id] + 1
        /\ (evTodo # <<>> /\ pc' # "sleep")
           => evTodo' \in {evTodo, Tail(evTodo)} ]_vars

\* the second attempt of an event that failed once: logged, gateway answered
C2_Witness ==
    /\ pc = "save"
    /\ gwCalls[Cur.event_id] = 2
    /\ Len(EntriesOf(plog, Cur.event_id)) = 3
    /\ EntriesOf(plog, Cur.event_id)[2].state = "failed"
    /\ EntriesOf(plog, Cur.event_id)[3].state = "processing"

\* C3: when process_event has recorded `completed` for an event of session s,
\* the stored conflicts of s are, as a set of {claim-id pair, severity}, what
\* detect_conflicts gives on the full stored claim set of s.
C3_ConflictsAreFresh ==
    pc = "add" =>
      PairSet(load_conflicts(conflictsFile[Cur.session_id]))
        = PairSet(detect_conflicts(claimsFile[Cur.session_id]).conflicts)

\* a completed event whose recomputation replaced a different, non-empty set
C3_Witness ==
    /\ pc = "add"
    /\ prior # <<>>
    /\ PairSet(prior) # PairSet(conflictsFile[Cur.session_id])

\* C4: a get_conflicts(s) call that runs while process_event replaces the
\* conflict set of s returns the complete prior set or the complete fresh set.
C4_AtomicReplace ==
    readObs.done =>
      \/ PairSet(readObs.res.got) = PairSet(readObs.res.before)
      \/ PairSet(readObs.res.got) = PairSet(readObs.res.fresh)

\* C5: replaying the log gives exactly the events whose last log line is
\* `completed`: for every reachable log, "some line of e is completed" and
\* "the last line of e is completed" coincide, and what the last startup
\* loaded is among them.
C5_ReplayIsLastState ==
    /\ load_processed_events(plog)
         = {e \in EventIds : LastState(plog, e) = "completed"}
    /\ \A e \in EventIds :
         HasCompleted(plog, e) <=> LastState(plog, e) = "completed"
    /\ loaded \subseteq {e \in EventIds : LastState(plog, e) = "completed"}

\* a startup that loaded event 1, while event 2 has an unfinished attempt
C5_Witness ==
    /\ loaded = {1}
    /\ LastState(plog, 2) \in {"processing", "failed"}
    /\ load_processed_events(plog) = {1}

-----------------------------------------------------------------------------
(***************************************************************************)
(* The ledger service (services/ledger).                                   *)
(*                                                                         *)
(* A partition file is the text the code wrote: a sequence of tokens.  The *)
(* text of one record, event.model_dump_json() + "\n", is three tokens:    *)
(* the JSON object up to its closing brace, the closing brace, and the     *)
(* newline.  A write that fails leaves a proper prefix of them in the      *)
(* file.  Timestamps are integers; in JSON a timestamp is the pair         *)
(* <<"iso", t>>.  metadata is a set of <<key, value>> pairs.               *)
(***************************************************************************)
MaxLedgerAppends == 2
MaxStreamAppends == 2

Sources == {"system", "developer", "user", "memory", "claude_md", "skill",
            "tool_output", "agent_internal"}
Scopes == {"global", "conversation", "task", "step", "file"}

\* request bodies of POST /ledger/append
EventCreates ==
    { [session_id |-> "s1", source |-> "user", scope |-> "global",
       text |-> "never write", metadata |-> {}],
      [session_id |-> "s2", source |-> "system", scope |-> "task",
       text |-> "always log", metadata |-> {<<"k", "v">>}] }

\* values uuid.uuid4().hex[:12] can take, and readings of datetime.now()
Ids == {"a", "b"}
Times == {1, 2}

\* f"evt_{hex}"
generate_id(hex) == <<"evt_", hex>>

isoformat(t) == <<"iso", t>>
fromisoformat(x) == x[2]

model_dump_json(e) ==
    [schema_version |-> e.schema_version, event_id |-> e.event_id,
     session_id |-> e.session_id, ts |-> isoformat(e.ts), source |-> e.source,
     scope |-> e.scope, text |-> e.text, metadata |-> e.metadata]

NoObj == [none |-> TRUE]
Body(o) == [c |-> "{", o |-> o]
CloseBrace == [c |-> "}", o |-> NoObj]
Newline == [c |-> "nl", o |-> NoObj]
Junk == [c |-> "junk", o |-> NoObj]

\* event.model_dump_json() + "\n"
RecordText(e) == <<Body(model_dump_json(e)), CloseBrace, Newline>>

\* a JSON object that is no Event: its source is none of the Literal's values
ForeignObj ==
    [schema_version |-> "0.9", event_id |-> <<"evt_", "old">>, session_id |-> "s1",
     ts |-> isoformat(1), source |-> "plugin", scope |-> "global",
     text |-> "old", metadata |-> {}]

\* iterating an open file: the text cut after each newline, a last line
\* without newline included
RECURSIVE SplitLines(_, _, _)
SplitLines(text, cur, acc) ==
    IF text = <<>> THEN (IF cur = <<>> THEN acc ELSE Append(acc, cur))
    ELSE IF Head(text).c = "nl"
         THEN SplitLines(Tail(text), <<>>, Append(acc, cur))
         ELSE SplitLines(Tail(text), Append(cur, Head(text)), acc)

readlines(text) == SplitLines(text, <<>>, <<>>)

\* json.loads(line) returns (an object) or raises json.JSONDecodeError
IsJson(line) == Len(line) = 2 /\ line[1].c = "{" /\ line[2].c = "}"
json_loads(line) == line[1].o

\* Event(**obj) returns or raises pydantic's ValidationError (a ValueError)
IsEvent(o) == o.source \in Sources /\ o.scope \in Scopes /\ o.ts[1] = "iso"
Event(o) ==
    [schema_version |-> o.schema_version, event_id |-> o.event_id,
     session_id |-> o.session_id, ts |-> fromisoformat(o.ts), source |-> o.source,
     scope |-> o.scope, text |-> o.text, metadata |-> o.metadata]

\* LedgerStorage.get_session_events on the text of the partition file ( <<>>
\* for no file): ok = FALSE when the call raises
RECURSIVE SessionLoop(_, _)
SessionLoop(lines, events) ==
    IF lines = <<>> THEN [ok |-> TRUE, events |-> events]
    ELSE IF ~IsJson(Head(lines))
         THEN SessionLoop(Tail(lines), events)          \* except JSONDecodeError
         ELSE IF ~IsEvent(json_loads(Head(lines)))
              THEN [ok |-> FALSE, events |-> <<>>]      \* ValidationError is not caught
              ELSE SessionLoop(Tail(lines),
                               Append(events, Event(json_loads(Head(lines)))))

get_session_events(text) == SessionLoop(readlines(text), <<>>)

\* Optional[datetime]
Absent == [given |-> FALSE]
Given(t) == [given |-> TRUE, t |-> t]

RangeKeeps_exclusive(ev, start, end) ==
    /\ ~(start.given /\ ev.ts <= start.t)
    /\ ~(end.given /\ ev.ts >= end.t)

\* the two filters of get_events_range
RangeKeeps(ev, start, end) ==
    /\ ~(start.given /\ ev.ts < start.t)
    /\ ~(end.given /\ ev.ts > end.t)

RECURSIVE RangeLoop(_, _, _, _)
RangeLoop(lines, start, end, all_events) ==
    IF lines = <<>> THEN all_events
    ELSE IF ~IsJson(Head(lines)) \/ ~IsEvent(json_loads(Head(lines)))
         THEN RangeLoop(Tail(lines), start, end, all_events)   \* except (JSONDecodeError, ValueError)
         ELSE LET event == Event(json_loads(Head(lines))) IN
              RangeLoop(Tail(lines), start, end,
                        IF RangeKeeps(event, start, end)
                        THEN Append(all_events, event) ELSE all_events)

\* list.sort(key=lambda e: e.ts): stable
RECURSIVE InsertByTs(_, _)
InsertByTs(sorted, e) ==
    IF sorted = <<>> THEN <<e>>
    ELSE IF Head(sorted).ts <= e.ts
         THEN <<Head(sorted)>> \o InsertByTs(Tail(sorted), e)
         ELSE <<e>> \o sorted

RECURSIVE SortByTs(_, _)
SortByTs(es, sorted) ==
    IF es = <<>> THEN sorted ELSE SortByTs(Tail(es), InsertByTs(sorted, Head(es)))

\* LedgerStorage.get_events_range; order is the order in which glob yields
\* the partition files
RECURSIVE FilesLoop(_, _, _, _, _)
FilesLoop(files, order, start, end, all_events) ==
    IF order = <<>> THEN all_events
    ELSE FilesLoop(files, Tail(order), start, end,
                   RangeLoop(readlines(files[Head(order)]), start, end, all_events))

get_events_range(files, order, start, end) ==
    SortByTs(FilesLoop(files, order, start, end, <<>>), <<>>)

\* asyncio.Queue(): maxsize 0 means no limit
QueueMaxsize == 0
full_one(q) == Len(q) >= 1
full(q) == QueueMaxsize > 0 /\ Len(q) >= QueueMaxsize

Registered == Range(event_subscribers)

\* POST /ledger/append.  k tokens of the record reach the file: k = 3 is the
\* successful write, k < 3 is a write that raises.  The handler has no
\* suspension point before the fan-out, and queue.put suspends only on a full
\* queue.
append_event(data, hex, now, k) ==
    LET event == [schema_version |-> "1.0", event_id |-> generate_id(hex),
                  ts |-> now, session_id |-> data.session_id,
                  source |-> data.source, scope |-> data.scope,
                  text |-> data.text, metadata |-> data.metadata]
        text == RecordText(event)
        s == data.session_id
    IN  /\ \A q \in Registered : ~full(queue[q])
        /\ lfile' = [lfile EXCEPT ![s] = @ \o SubSeq(text, 1, k)]
        /\ IF k = Len(text)
           THEN /\ queue' = [q \in DOMAIN queue |->
                               IF q \in Registered THEN Append(queue[q], event)
                               ELSE queue[q]]
                /\ appended' = Append(appended, event)
                /\ lresp' = Done([status |-> 200, data |-> data, event |-> event])
           ELSE /\ lresp' = Done([status |-> 500, data |-> data, event |-> event])
                /\ UNCHANGED <<queue, appended>>
        /\ lcalls' = lcalls + 1
        /\ lread' = None
        /\ UNCHANGED <<event_subscribers, sub, pipeVars, pairVars, detVars, extVars>>

\* partition texts found at startup: nothing, a line that is no JSON, a line
\* that is JSON and no Event
StoredTexts == { <<>>, <<Junk, Newline>>, <<Body(ForeignObj), CloseBrace, Newline>> }

LedgerInit ==
    /\ lfile \in [Sessions -> StoredTexts]
    /\ lfile["s2"] = <<>>
    /\ lcalls = 0 /\ appended = <<>> /\ lresp = None /\ lread = None
    /\ event_subscribers = <<>> /\ queue = <<>> /\ sub = <<>>
    /\ PipeIdle /\ PairIdle /\ DetIdle /\ ExtIdle

\* the id and the clock reading of a call are drawn freely when the write
\* succeeds; a failing write is enumerated with one id and one reading
LedgerAppend ==
    /\ lcalls < MaxLedgerAppends
    /\ \E data \in EventCreates, hex \in Ids, now \in Times, k \in 0..3 :
          /\ k < 3 => (hex = "a" /\ now = 1)
          /\ append_event(data, hex, now, k)

\* GET /ledger/session/{session_id}
GetSession ==
    \E s \in Sessions :
       /\ lread' = Done([op |-> "session", session |-> s,
                         out |-> get_session_events(lfile[s])])
       /\ UNCHANGED <<lfile, lcalls, appended, lresp, event_subscribers, queue, sub,
                      pipeVars, pairVars, detVars, extVars>>

GlobOrders == { <<"s1", "s2">>, <<"s2", "s1">> }
RangeStarts == { Absent, Given(2) }
RangeEnds == { Absent, Given(1) }

\* GET /ledger/events
GetEvents ==
    \E order \in GlobOrders, start \in RangeStarts, end \in RangeEnds :
       /\ lread' = Done([op |-> "range", start |-> start, end |-> end,
                         out |-> get_events_range(lfile, order, start, end)])
       /\ UNCHANGED <<lfile, lcalls, appended, lresp, event_subscribers, queue, sub,
                      pipeVars, pairVars, detVars, extVars>>

LedgerNext == LedgerAppend \/ GetSession \/ GetEvents

SpecLedger == LedgerInit /\ [][LedgerNext]_vars

-----------------------------------------------------------------------------
(* Properties of the ledger's storage *)

IsPrefix(a, b) == Len(a) <= Len(b) /\ SubSeq(b, 1, Len(a)) = a
Count(e, seq) == Cardinality({i \in 1..Len(seq) : seq[i] = e})

\* the lines of a partition that hold one whole record of a valid Event, in
\* file order
WellFormed(line) == IsJson(line) /\ IsEvent(json_loads(line))
WellFormedEvents(text) ==
    LET good == SelectSeq(readlines(text), WellFormed)
    IN  [i \in 1..Len(good) |-> Event(json_loads(good[i]))]

AllStored == WellFormedEvents(lfile["s1"]) \o WellFormedEvents(lfile["s2"])

\* the last call was a read of the session that the last successful append
\* wrote to, and the read returned
ReadBack ==
    /\ lresp.done /\ lresp.res.status = 200
    /\ lread.done /\ lread.res.op = "session"
    /\ lread.res.session = lresp.res.data.session_id
    /\ lread.res.out.ok

\* C11: an append followed by a read of its session returns an event with the
\* appended session_id, source, scope, text and metadata; the ids of the
\* stored events are pairwise different; the timestamps of the session's
\* events do not decrease in append order.
C11_AppendReadBack ==
    ReadBack =>
      LET got == lread.res.out.events
          d == lresp.res.data
      IN  /\ \E i \in 1..Len(got) :
                /\ got[i].event_id = lresp.res.event.event_id
                /\ got[i].session_id = d.session_id /\ got[i].source = d.source
                /\ got[i].scope = d.scope /\ got[i].text = d.text
                /\ got[i].metadata = d.metadata
          /\ \A i, j \in 1..Len(AllStored) :
                i # j => AllStored[i].event_id # AllStored[j].event_id
          /\ \A i, j \in 1..Len(got) : i < j => got[i].ts <= got[j].ts

\* C12: for every session, what get_session_events returns before a step is
\* a prefix of what it returns after the step (so any earlier read is a prefix
\* of any later one): nothing stored is removed, reordered or changed.
C12_AppendOnly ==
    [][\A s \in Sessions :
          LET r1 == get_session_events(lfile[s])
              r2 == get_session_events(lfile'[s])
          IN  (r1.ok /\ r2.ok) => IsPrefix(r1.events, r2.events)]_vars

\* C13: get_session_events returns, and returns exactly the well-formed
\* records of the partition in file order, whatever malformed lines the file
\* holds.
C13_MalformedSkipped ==
    (lread.done /\ lread.res.op = "session") =>
        /\ lread.res.out.ok
        /\ lread.res.out.events = WellFormedEvents(lfile[lread.res.session])

InBounds(e, start, end) ==
    /\ start.given => start.t <= e.ts
    /\ end.given => e.ts <= end.t

-----------------------------------------------------------------------------
(***************************************************************************)
(* GET /ledger/stream.  sub[q] is the generator that owns queue q: pos is  *)
(* "get" while it awaits queue.get(), "yield" while it is suspended at the *)
(* yield (the response is sending the event), "ended" afterwards.  got is  *)
(* the sequence of events it has yielded; since is the number of           *)
(* successful appends made before it registered its queue.                 *)
(***************************************************************************)
MaxSubs == 1

\* values of the query parameter session_id
Filters == { Absent, Given(""), Given("s1") }

passes_all(session_id, event) == TRUE

\* a taken event is yielded unless:  session_id and event.session_id != session_id
passes(session_id, event) ==
    ~(session_id.given /\ session_id.t # "" /\ event.session_id # session_id.t)

StreamIds == <<"a", "b", "c", "d", "e">>

StreamInit ==
    /\ lfile = [s \in Sessions |-> <<>>]
    /\ lcalls = 0 /\ appended = <<>> /\ lresp = None /\ lread = None
    /\ event_subscribers = <<>> /\ queue = <<>> /\ sub = <<>>
    /\ PipeIdle /\ PairIdle /\ DetIdle /\ ExtIdle

\* the calls draw different ids and the clock stands still; a failing write is
\* enumerated for session s1
StreamAppend ==
    /\ lcalls < MaxStreamAppends
    /\ \E data \in EventCreates, k \in 0..3 :
          /\ k < 3 => data.session_id = "s1"
          /\ append_event(data, StreamIds[lcalls + 1], 1, k)

\* the generator starts: queue = asyncio.Queue(); event_subscribers.append(queue)
Subscribe ==
    /\ Len(sub) < MaxSubs
    /\ \E session_id \in Filters :
          LET q == Len(sub) + 1 IN
          /\ queue' = Append(queue, <<>>)
          /\ event_subscribers' = Append(event_subscribers, q)
          /\ sub' = Append(sub, [pos |-> "get", session_id |-> session_id,
                                 got |-> <<>>, since |-> Len(appended)])
    /\ lresp' = None /\ lread' = None
    /\ UNCHANGED <<lfile, lcalls, appended, pipeVars, pairVars, detVars, extVars>>

\* event = await queue.get(), then continue or yield
Take ==
    \E q \in DOMAIN sub :
       /\ sub[q].pos = "get" /\ queue[q] # <<>>
       /\ LET event == Head(queue[q]) IN
          /\ queue' = [queue EXCEPT ![q] = Tail(@)]
          /\ sub' = IF passes(sub[q].session_id, event)
                    THEN [sub EXCEPT ![q].got = Append(@, event), ![q].pos = "yield"]
                    ELSE sub
       /\ lresp' = None /\ lread' = None
       /\ UNCHANGED <<lfile, lcalls, appended, event_subscribers,
                      pipeVars, pairVars, detVars, extVars>>

\* the response has sent the event and asks the generator for the next one
Resume ==
    \E q \in DOMAIN sub :
       /\ sub[q].pos = "yield"
       /\ sub' = [sub EXCEPT ![q].pos = "get"]
       /\ lresp' = None /\ lread' = None
       /\ UNCHANGED <<lfile, lcalls, appended, event_subscribers, queue,
                      pipeVars, pairVars, detVars, extVars>>

\* list.remove(q)
remove(list, q) == SelectSeq(list, LAMBDA x : x # q)

\* the task is cancelled while the generator awaits queue.get():
\* except asyncio.CancelledError: event_subscribers.remove(queue)
Cancel ==
    \E q \in DOMAIN sub :
       /\ sub[q].pos = "get"
       /\ event_subscribers' = remove(event_subscribers, q)
       /\ sub' = [sub EXCEPT ![q].pos = "ended"]
       /\ lresp' = None /\ lread' = None
       /\ UNCHANGED <<lfile, lcalls, appended, queue,
                      pipeVars, pairVars, detVars, extVars>>

\* the response ends while the generator is suspended at the yield (the
\* client disconnects during the send): the generator is closed there, which
\* raises GeneratorExit at the yield; no handler of the generator catches it
Close ==
    \E q \in DOMAIN sub :
       /\ sub[q].pos = "yield"
       /\ sub' = [sub EXCEPT ![q].pos = "ended"]
       /\ lresp' = None /\ lread' = None
       /\ UNCHANGED <<lfile, lcalls, appended, event_subscribers, queue,
                      pipeVars, pairVars, detVars, extVars>>

StreamNext == StreamAppend \/ Subscribe \/ Take \/ Resume \/ Cancel \/ Close

SpecStream == StreamInit /\ [][StreamNext]_vars

-----------------------------------------------------------------------------
(* Properties of the append fan-out and of the subscriptions *)

\* the step is an append call whose storage write failed: less than the three
\* tokens of a record reached the file
FailedWrite ==
    /\ lcalls' = lcalls + 1
    /\ \A s \in Sessions : Len(lfile'[s]) < Len(lfile[s]) + 3

\* C14: an append whose storage write fails returns an error, leaves what
\* readers get of every session unchanged and puts nothing into a queue; every
\* event in a queue is an event whose write succeeded.
C14_FailedWriteLeavesNoTrace ==
    [][/\ FailedWrite =>
            /\ lresp'.res.status = 500
            /\ \A s \in Sessions :
                  get_session_events(lfile'[s]) = get_session_events(lfile[s])
            /\ queue' = queue
       /\ \A q \in DOMAIN queue' : Range(queue'[q]) \subseteq Range(appended')]_vars

\* the events appended since subscription q registered its queue
Since(q) == SubSeq(appended, sub[q].since + 1, Len(appended))

WantedAsClaimed(q, e) ==
    sub[q].session_id.given => e.session_id = sub[q].session_id.t

Wanted(q, e) ==
    (sub[q].session_id.given /\ sub[q].session_id.t # "")
        => e.session_id = sub[q].session_id.t

\* C15 as stated: what a subscription has received is an initial part of the
\* events appended since it registered (all of them without a filter, those
\* of session f with a filter f), in append order, each once; while it lives,
\* the rest of them waits in its queue.
C15_ReceivesExactlyLater ==
    \A q \in DOMAIN sub :
       LET want == SelectSeq(Since(q), LAMBDA e : WantedAsClaimed(q, e))
           wait == SelectSeq(queue[q], LAMBDA e : WantedAsClaimed(q, e))
       IN  /\ IsPrefix(sub[q].got, want)
           /\ sub[q].pos # "ended" => sub[q].got \o wait = want

\* C15 amended: the same, with an empty filter counting as no filter.
C15_ReceivesExactlyLaterNonEmpty ==
    \A q \in DOMAIN sub :
       LET want == SelectSeq(Since(q), LAMBDA e : Wanted(q, e))
           wait == SelectSeq(queue[q], LAMBDA e : Wanted(q, e))
       IN  /\ IsPrefix(sub[q].got, want)
           /\ sub[q].pos # "ended" => sub[q].got \o wait = want

\* a subscription filtered on s1 that registered after one event of s1 was
\* appended, and has received the one of s1 appended later
C15_Witness ==
    \E q \in DOMAIN sub :
       /\ sub[q].session_id = Given("s1") /\ sub[q].since = 1
       /\ Len(appended) = 2 /\ appended[1].session_id = "s1"
       /\ sub[q].got = <<appended[2]>>

\* C16: whatever the subscribers do, the next append call can run to its end:
\* the handler is enabled in every state in which a call may still be made.
C16_AppendNeverBlocks ==
    lcalls < MaxStreamAppends => ENABLED StreamAppend

\* two appends have returned 200 although a registered subscriber has taken
\* nothing from its queue
C16_Witness ==
    /\ lresp.done /\ lresp.res.status = 200
    /\ \E q \in Registered :
          /\ sub[q].got = <<>> /\ sub[q].pos = "get"
          /\ queue[q] = appended /\ Len(appended) = 2

\* C17: the registry holds only queues of subscriptions that have not ended.
C17_RegistryHoldsLiveOnly ==
    \A q \in Registered : sub[q].pos # "ended"

-----------------------------------------------------------------------------
(***************************************************************************)
(* The extractor's validation of the LLM output                            *)
(* (services/extractor/main.py, extract_claims_from_text).  xraw is        *)
(* raw_claims, the parsed JSON array.  An item is a JSON object (kind      *)
(* "dict", or "dict_no_action" for an object without the key action) or    *)
(* another JSON value (kind "str").                                        *)
(***************************************************************************)
MaxBatch == 2

RawItem(kind, modality, action, confidence, evidence) ==
    [kind |-> kind, modality |-> modality, action |-> action,
     confidence |-> confidence, evidence |-> evidence]

RawItems ==
    { RawItem("dict", "must_not", "file_write", 90, <<"never write">>),
      RawItem("dict", "should", "log", ConfZero, <<"log">>),
      RawItem("dict", "must", "file_write", 150, <<"write">>),
      RawItem("dict", "must", "file_write", 0 - 10, <<"write">>),
      RawItem("dict", "must", "file_write", 90, <<>>),
      RawItem("dict", "never", "file_write", 90, <<"never">>),
      RawItem("dict_no_action", "must", "", 90, <<"write">>),
      RawItem("str", "", "", 0, <<>>) }

\* Claim(...) is called with **raw: a TypeError unless raw is a mapping
IsMapping(raw) == raw.kind \in {"dict", "dict_no_action"}

\* the checks of extractor.models.Claim; a failure is a ValidationError
ClaimValidates(raw) ==
    /\ raw.kind = "dict"
    /\ raw.modality \in Modalities
    /\ raw.confidence >= ConfZero /\ raw.confidence <= ConfOne
    /\ raw.evidence # <<>>

XClaim(n, raw) ==
    [claim_id |-> n, session_id |-> "s1", event_id |-> 1,
     modality |-> raw.modality, action |-> raw.action,
     confidence |-> raw.confidence, evidence |-> raw.evidence]

\* the loop over raw_claims inside the outer try: n counts the items, the
\* result is what extract_claims_from_text returns
RECURSIVE ValidateLoop(_, _, _)
ValidateLoop(raw_claims, n, validated_claims) ==
    IF raw_claims = <<>> THEN validated_claims
    ELSE IF ~IsMapping(Head(raw_claims))
         THEN <<>>                       \* TypeError: except Exception: return []
         ELSE IF ~ClaimValidates(Head(raw_claims))
              THEN ValidateLoop(Tail(raw_claims), n + 1, validated_claims)   \* except ValidationError: continue
              ELSE ValidateLoop(Tail(raw_claims), n + 1,
                                Append(validated_claims, XClaim(n, Head(raw_claims))))

ExtractInit ==
    /\ xraw \in UNION { [1..n -> RawItems] : n \in 0..MaxBatch }
    /\ xout = None
    /\ PipeIdle /\ PairIdle /\ DetIdle /\ LedIdle

\* validated_claims of one call of extract_claims_from_text
Validate ==
    /\ ~xout.done
    /\ xout' = Done(ValidateLoop(xraw, 1, <<>>))
    /\ UNCHANGED <<xraw, pipeVars, pairVars, detVars, ledVars>>

ExtractNext == Validate

SpecExtract == ExtractInit /\ [][ExtractNext]_vars

\* the raw items of the batch that are well-formed claims, with their places
WellFormedPlaces == {i \in 1..Len(xraw) : ClaimValidates(xraw[i])}

\* C19: the call returns one claim for every well-formed item of the batch,
\* in batch order, and nothing for the malformed ones, whatever else the
\* batch holds.
C19_MalformedDroppedAlone ==
    xout.done =>
        /\ Len(xout.res) = Cardinality(WellFormedPlaces)
        /\ \A i \in WellFormedPlaces :
              \E j \in 1..Len(xout.res) :
                 /\ xout.res[j].claim_id = i
                 /\ xout.res[j].modality = xraw[i].modality
                 /\ xout.res[j].action = xraw[i].action
                 /\ xout.res[j].confidence = xraw[i].confidence
                 /\ xout.res[j].evidence = xraw[i].evidence
        /\ \A j, k \in 1..Len(xout.res) :
              j < k => xout.res[j].claim_id < xout.res[k].claim_id

-----------------------------------------------------------------------------
(* The lifecycle of an event in the processing log *)

StatesOf(log, e) ==
    LET es == EntriesOf(log, e) IN [i \in 1..Len(es) |-> es[i].state]

\* C20: among the log entries of an event, every `completed` and every
\* `failed` entry comes directly after a `processing` entry, and a
\* `completed` entry is the last one.
C20_LogLifecycle ==
    \A e \in EventIds :
       LET st == StatesOf(plog, e) IN
       \A i \in 1..Len(st) :
          /\ st[i] \in {"completed", "failed"} => (i > 1 /\ st[i - 1] = "processing")
          /\ st[i] = "completed" => i = Len(st)

\* an event that failed, was taken up again and completed
C20_Witness ==
    \E e \in EventIds :
       StatesOf(plog, e) = <<"processing", "failed", "processing", "completed">>

-----------------------------------------------------------------------------
(* A failing gateway call *)

\* the step ExtractFails takes: the attempt leaves pc = "extract" through the
\* except branch of process_event
GatewayFailureStep == pc = "extract" /\ pc' = "events"

\* C21: when the gateway call of an attempt fails, the attempt appends one
\* `failed` entry for its event to the processing log and no `completed`
\* entry, and leaves the stored claims, the stored conflicts and the
\* in-memory completed set as they were.
C21_GatewayFailureFrame ==
    [][ GatewayFailureStep =>
          /\ Len(plog') = Len(plog) + 1
          /\ SubSeq(plog', 1, Len(plog)) = plog
          /\ plog'[Len(plog')].state = "failed"
          /\ plog'[Len(plog')].event_id = Cur.event_id
          /\ claimsFile' = claimsFile
          /\ conflictsFile' = conflictsFile
          /\ processed_events' = processed_events ]_vars

\* event 1 is completed with stored claims and conflicts; the gateway call for
\* event 2 of the same session failed, and nothing of event 2 is stored
C21_Witness ==
    /\ plog # <<>>
    /\ plog[Len(plog)].state = "failed"
    /\ plog[Len(plog)].event_id = 2
    /\ gwCalls[2] = 1
    /\ processed_events = {1}
    /\ ClaimLines(claimsFile, 1) = 2
    /\ ClaimLines(claimsFile, 2) = 0
    /\ \E s \in Sessions : ledger[s] = <<1, 2>> /\ conflictsFile[s] # <<>>

-----------------------------------------------------------------------------
(* What precedes `completed` *)

\* the step LogCompleted takes: one more `completed` entry in the log
CompletedStep ==
    /\ Len(plog') = Len(plog) + 1
    /\ plog'[Len(plog')].state = "completed"

\* C22: a `completed` entry is written only by an attempt whose gateway call
\* returned, after the returned claims were appended to the session's claim
\* store and the conflicts recomputed from that store were stored; and the
\* in-memory completed set holds only events with a `completed` log entry.
C22_CompletedAfterStores ==
    [][ /\ CompletedStep =>
            LET e == plog'[Len(plog')].event_id
                s == plog'[Len(plog')].session_id
            IN  /\ evTodo # <<>> /\ Cur.event_id = e /\ Cur.session_id = s
                /\ plog # <<>>
                /\ plog[Len(plog)].state = "processing"
                /\ plog[Len(plog)].event_id = e
                /\ gwCalls[e] > 0
                /\ plog'[Len(plog')].claims_extracted = Len(claims)
                /\ \A i \in 1..Len(claims) :
                      /\ claims[i].event_id = e
                      /\ \E j \in 1..Len(claimsFile[s]) : claimsFile[s][j] = claims[i]
                /\ conflicts = detect_conflicts(load_claims(claimsFile[s])).conflicts
                /\ load_conflicts(conflictsFile[s]) = conflicts
                /\ e \notin processed_events
        /\ processed_events' \subseteq load_processed_events(plog') ]_vars

\* the `completed` entry of an attempt that stored two claims and a conflict
\* is in the log, and the event is not yet in the in-memory set
C22_Witness ==
    /\ pc = "add"
    /\ plog[Len(plog)].state = "completed"
    /\ Cur.event_id \notin processed_events
    /\ Len(claims) = 2
    /\ conflictsFile[Cur.session_id] # <<>>

-----------------------------------------------------------------------------
(* Sessions within one poll pass *)

\* C23: a failure while reading the events of one session does not keep the
\* other sessions of the pass from being processed: when the handler of the
\* failure is reached, no session listed for the pass is left unvisited.
C23_SessionsIndependent ==
    pc = "poll_failed" => sessTodo = {}

-----------------------------------------------------------------------------
(* The pairs detect_conflicts examines *)

\* the claim of the input list with the given id
ClaimById(id) == CHOOSE c \in Range(dclaims) : c.claim_id = id

\* C24: the result of detect_conflicts names only pairs of two different
\* claims of the input that agree in action and target, with severity hard
\* or soft; it holds at most one conflict per unordered pair, and one for
\* every contradictory pair of a group whose severity is assessed.
C24_EachPairOnce ==
    (dout.done /\ ~dout.res.raised) =>
      LET cf == dout.res.conflicts
          ids == {dclaims[i].claim_id : i \in 1..Len(dclaims)}
      IN  /\ \A n \in 1..Len(cf) :
                /\ Len(cf[n].claims) = 2
                /\ cf[n].claims[1] \in ids
                /\ cf[n].claims[2] \in ids
                /\ cf[n].claims[1] # cf[n].claims[2]
                /\ ClaimById(cf[n].claims[1]).action = ClaimById(cf[n].claims[2]).action
                /\ ClaimById(cf[n].claims[1]).target = ClaimById(cf[n].claims[2]).target
                /\ cf[n].severity \in {"hard", "soft"}
          /\ \A n, k \in 1..Len(cf) :
                n # k => Range(cf[n].claims) # Range(cf[k].claims)
          /\ \A i, j \in 1..Len(dclaims) :
                ( /\ i < j
                  /\ dclaims[i].action = dclaims[j].action
                  /\ dclaims[i].target = dclaims[j].target
                  /\ is_contradictory(dclaims[i].modality, dclaims[j].modality)
                  /\ assess_conflict_severity(dclaims[i], dclaims[j]) # "none" )
                => \E n \in 1..Len(cf) :
                      Range(cf[n].claims) = {dclaims[i].claim_id, dclaims[j].claim_id}

\* three claims of one group with two conflicting pairs and one pair without
\* conflict, next to nothing from another group
C24_Witness ==
    /\ dout.done
    /\ Len(dclaims) = 3
    /\ \A i \in 1..3 : key(dclaims[i]) = key(dclaims[1])
    /\ Len(dout.res.conflicts) = 2
    /\ dout.res.conflicts[1].severity # dout.res.conflicts[2].severity

-----------------------------------------------------------------------------
(* The attempts field, and the claims stored for one event *)

\* the attempts started for the event of entry i, up to and including entry i
AttemptsUpTo(log, i) ==
    Cardinality({j \in 1..i : /\ log[j].event_id = log[i].event_id
                              /\ log[j].state = "processing"})

\* C25: the attempts field of every processing-log entry is the number of
\* attempts started so far for its event: 1 for the first, k for the k-th.
C25_AttemptsCounted ==
    \A i \in 1..Len(plog) : plog[i].attempts = AttemptsUpTo(plog, i)

\* the claim lines stored for event e in session s
StoredFor(s, e) == SelectSeq(claimsFile[s], LAMBDA c : c.event_id = e)

\* the lines are the claims of one gateway answer: one batch, with the
\* consecutive claim ids of one call
OneCall(lines) ==
    \E b \in Batches :
       /\ Len(lines) = Len(b)
       /\ \A i \in 1..Len(b) :
             /\ lines[i].modality = b[i].modality
             /\ lines[i].conditions = b[i].conditions
             /\ lines[i].claim_id = lines[1].claim_id + (i - 1)

\* C26: whatever attempts, failures, retries and restarts happen, the claim
\* store holds for every event the claims of at most one extraction call.
C26_ClaimsOfOneCall ==
    \A s \in Sessions : \A e \in EventIds : OneCall(StoredFor(s, e))

-----------------------------------------------------------------------------
(* One attempt at a time *)

\* C27: while the process runs, attempts do not overlap: a `processing`
\* entry is written only when no attempt is in progress, and while one is in
\* progress the only entry written is its own terminal entry, directly
\* after its `processing` entry.
C27_AttemptsDoNotOverlap ==
    [][ Len(plog') > Len(plog) =>
          /\ Len(plog') = Len(plog) + 1
          /\ IF plog'[Len(plog')].state = "processing"
             THEN /\ pc \notin InProcessEvent
                  /\ pc' = "extract"
             ELSE /\ pc \in InProcessEvent
                  /\ pc' \in {"events", "add"}
                  /\ plog'[Len(plog')].state \in {"completed", "failed"}
                  /\ plog'[Len(plog')].event_id = Cur.event_id
                  /\ plog[Len(plog)].state = "processing"
                  /\ plog[Len(plog)].event_id = Cur.event_id ]_vars

\* two attempts of one pass, one after the other: the first event of the
\* session failed, the attempt of the second one is in progress
C27_Witness ==
    /\ pc = "save"
    /\ Len(plog) = 3
    /\ plog[2].state = "failed"
    /\ plog[3].state = "processing"
    /\ plog[3].event_id # plog[1].event_id
    /\ Len(evTodo) = 1

-----------------------------------------------------------------------------
(* The conflicts stored for a session *)

\* C29: every conflict stored for session s carries session_id s and names
\* two different claim ids, both of claims stored in the claim store of s.
C29_ConflictsReferToStoredClaims ==
    \A s \in Sessions :
      \A n \in 1..Len(conflictsFile[s]) :
         LET cf == conflictsFile[s][n]
             stored == {claimsFile[s][j].claim_id : j \in 1..Len(claimsFile[s])}
         IN  /\ cf.session_id = s
             /\ Len(cf.claims) = 2
             /\ cf.claims[1] # cf.claims[2]
             /\ cf.claims[1] \in stored
             /\ cf.claims[2] \in stored

\* a stored conflict between claims of two different events of the session
C29_Witness ==
    \E s \in Sessions :
      /\ conflictsFile[s] # <<>>
      /\ \E j, k \in 1..Len(claimsFile[s]) :
            /\ claimsFile[s][j].event_id # claimsFile[s][k].event_id
            /\ conflictsFile[s][1].claims
                 = <<claimsFile[s][j].claim_id, claimsFile[s][k].claim_id>>

-----------------------------------------------------------------------------
(* The poll loop that keeps running: no crash, the ledger answers every
   read, the files of the monitor are written and read without error, and
   the gateway fails finitely often *)

\* failed gateway calls in a run of the loop
MaxFailures == 1

Failures == Cardinality({i \in 1..Len(plog) : plog[i].state = "failed"})

FirstEvent == [event_id |-> 1, session_id |-> "s1"]

\* the claims the gateway returned for the first event
FirstClaims == <<MakeClaim(1, FirstEvent, T_must), MakeClaim(2, FirstEvent, T_avoid)>>

\* a monitor at rest that has processed the first event of session s1: its
\* two claims and their conflict are stored, `completed` is logged
LiveInit ==
    /\ ledger = [s \in Sessions |-> IF s = "s1" THEN <<1>> ELSE <<>>]
    /\ plog = <<LogEntry(FirstEvent, "processing", 0),
                LogEntry(FirstEvent, "completed", Len(FirstClaims))>>
    /\ processed_events = {1}
    /\ claimsFile = [s \in Sessions |-> IF s = "s1" THEN FirstClaims ELSE <<>>]
    /\ conflictsFile = [s \in Sessions |->
                          IF s = "s1" THEN detect_conflicts(FirstClaims).conflicts
                          ELSE <<>>]
    /\ pc = "sleep"
    /\ sessTodo = {}
    /\ evTodo = <<>>
    /\ claims = <<>>
    /\ conflicts = <<>>
    /\ gwCalls = [e \in EventIds |-> IF e = 1 THEN 1 ELSE 0]
    /\ nextClaim = Len(FirstClaims)
    /\ loaded = {}
    /\ prior = <<>>
    /\ readObs = None
    /\ PairIdle /\ DetIdle /\ LedIdle /\ ExtIdle

\* a step of the poll_ledger task
MonitorStep ==
    \/ PollListSessions \/ PollFetchEvents
    \/ PollPassDone \/ PollSessionDone
    \/ ProcessSkip \/ StartAttempt
    \/ ExtractOk
    \/ (Failures < MaxFailures /\ ExtractFails)
    \/ SaveAndDetect
    \/ UnlinkConflicts \/ WriteConflicts
    \/ LogCompleted \/ AddProcessed

LiveNext == AppendEvent \/ MonitorStep

\* the task is scheduled again after every sleep and every awaited answer
SpecLive == LiveInit /\ [][LiveNext]_vars /\ WF_vars(MonitorStep)

InLedger(e) == \E s \in Sessions : e \in Range(ledger[s])

\* C28: while the poll loop keeps running, the ledger reads succeed and
\* failures of the gateway stop at some time, every event appended to the
\* ledger eventually has a `completed` entry in the processing log.
C28_EventuallyCompleted ==
    \A e \in EventIds : InLedger(e) ~> HasCompleted(plog, e)

\* the second event is completed after a failed attempt and a retry
C28_Witness ==
    /\ Failures = 1
    /\ StatesOf(plog, 2) = <<"processing", "failed", "processing", "completed">>
    /\ 2 \in processed_events
    /\ pc = "sleep"

====
